---- MODULE Spec2Model ----
(***************************************************************************)
(* Model of programs/selective-harvest.py: the harvest loops (harvestAll,  *)
(* harvest) over a small filesystem, and the response classifier (deliver) *)
(* over responses written as sequences of markup tokens.                   *)
(***************************************************************************)
EXTENDS Integers, Sequences, FiniteSets, TLC

----------------------------------------------------------------------------
(* Bounds *)

\* repoTasks holds at most MaxTasks tasks
MaxTasks == 2
\* a task holds at most MaxSets output sets
MaxSets == 2
\* a response text holds at most MaxLen tokens
MaxLen == 5

----------------------------------------------------------------------------
(* Response texts.  A text is a sequence of tokens; each token stands for  *)
(* one fixed piece of the response:                                        *)
(*   "GC" </GetRecord>     "MO" <metadata>        "MC" </metadata>         *)
(*   "E1" <error code="c1">  "E2" <error code="c2">  "EB" <error>          *)
(*   "EC" </error>         "SP" one blank         "d"  one data character  *)

Tokens == {"GC", "MO", "MC", "E1", "E2", "EB", "EC", "SP", "d"}

Texts == UNION {[1..n -> Tokens] : n \in 0..MaxLen}

Max(S) == CHOOSE x \in S : \A y \in S : y <= x
Min(S) == CHOOSE x \in S : \A y \in S : x <= y

\* positions of a token in a text
Pos(text, tok) == {i \in DOMAIN text : text[i] = tok}

\* the substring test  '<marker>' in text
Contains(text, tok) == Pos(text, tok) # {}

\* the code attribute an error opening tag carries
CodeOf(tok) == IF tok = "E1" THEN "c1" ELSE IF tok = "E2" THEN "c2" ELSE ""

\* str.strip(): leading and trailing blanks removed
RECURSIVE LStrip(_)
LStrip(text) ==
  IF text # <<>> /\ Head(text) = "SP" THEN LStrip(Tail(text)) ELSE text

RECURSIVE RStrip(_)
RStrip(text) ==
  IF text # <<>> /\ text[Len(text)] = "SP"
    THEN RStrip(SubSeq(text, 1, Len(text) - 1))
    ELSE text

Strip(text) == RStrip(LStrip(text))

\* metadataPat.search(text): '<metadata[^>]*>(.*)</metadata>' with re.S.
\* The leftmost opening tag starts the match and the greedy (.*) runs to the
\* last closing tag of the text.
MetadataSearch(text) ==
  LET mo == Pos(text, "MO")
      mc == Pos(text, "MC")
  IN  IF mo # {} /\ mc # {} /\ Min(mo) < Max(mc)
        THEN [match |-> TRUE, group1 |-> SubSeq(text, Min(mo) + 1, Max(mc) - 1)]
        ELSE [match |-> FALSE, group1 |-> <<>>]

\* errorPat.search(text):
\*   '<error.*code=['"]([^'"]*)['"][^>]*>(.*)</error>' with re.S.
\* The greedy .* after '<error' runs to the last code attribute that still has
\* a closing tag after it, and the greedy (.*) runs to the last closing tag.
ErrorSearch(text) ==
  LET ec == Pos(text, "EC")
      co == {k \in DOMAIN text : CodeOf(text[k]) # "" /\ \E j \in ec : k < j}
  IN  IF co # {}
        THEN [match |-> TRUE, group1 |-> CodeOf(text[Max(co)]),
              group2 |-> SubSeq(text, Max(co) + 1, Max(ec) - 1)]
        ELSE [match |-> FALSE, group1 |-> "", group2 |-> <<>>]

\* The values of the variable error in deliver, and of docError in harvest.
NoError == [kind |-> "None", code |-> "", msg |-> <<>>, diag |-> ""]
Malformed(diag) == [kind |-> "Malformed", code |-> "", msg |-> <<>>, diag |-> diag]
ProtocolError(code, msg) ==
  [kind |-> "ProtocolError", code |-> code, msg |-> msg, diag |-> ""]
Raised(what) == [kind |-> "Exception", code |-> "", msg |-> <<>>, diag |-> what]

\* deliver with the test for '</error>' made before the test for a record
Deliver_ErrorFirst(text) ==
  IF Contains(text, "EC")
    THEN IF ErrorSearch(text).match
           THEN [error |-> ProtocolError(ErrorSearch(text).group1,
                                         ErrorSearch(text).group2),
                 written |-> FALSE, text |-> text]
           ELSE [error |-> Malformed("Could not parse error message"),
                 written |-> FALSE, text |-> text]
    ELSE IF Contains(text, "GC") /\ Contains(text, "MC")
           THEN IF MetadataSearch(text).match
                  THEN [error |-> NoError, written |-> TRUE,
                        text |-> Strip(MetadataSearch(text).group1)]
                  ELSE [error |-> Malformed("No metadata found"),
                        written |-> FALSE, text |-> text]
           ELSE [error |-> Malformed("No record found and no error message found"),
                 written |-> FALSE, text |-> text]

\* deliver(path) on a readable file holding text: the error it returns, and
\* the text the file holds afterwards (written is TRUE when deliver wrote it).
Deliver(text) ==
  IF Contains(text, "GC") /\ Contains(text, "MC")
    THEN IF MetadataSearch(text).match
           THEN [error |-> NoError, written |-> TRUE,
                 text |-> Strip(MetadataSearch(text).group1)]
           ELSE [error |-> Malformed("No metadata found"), written |-> FALSE,
                 text |-> text]
    ELSE IF Contains(text, "EC")
           THEN IF ErrorSearch(text).match
                  THEN [error |-> ProtocolError(ErrorSearch(text).group1,
                                                ErrorSearch(text).group2),
                        written |-> FALSE, text |-> text]
                  ELSE [error |-> Malformed("Could not parse error message"),
                        written |-> FALSE, text |-> text]
           ELSE [error |-> Malformed("No record found and no error message found"),
                 written |-> FALSE, text |-> text]

\* the truth value of docError in 'if docError'
IsError(docError) == docError.kind # "None"

----------------------------------------------------------------------------
(* Identifiers and paths *)

\* document identifiers, as tuples of characters
Ids == {<<"a", "-", "b">>, <<"a", ":", "b">>, <<"c">>}

\* code points of the characters, for the order sorted() uses
Ord(c) == CASE c = "-" -> 45 [] c = ":" -> 58 [] c = "a" -> 97
            [] c = "b" -> 98 [] c = "c" -> 99

\* Python's order on strings: a < b
RECURSIVE StrLess(_, _)
StrLess(a, b) ==
  IF b = <<>> THEN FALSE
  ELSE IF a = <<>> THEN TRUE
  ELSE IF Head(a) # Head(b) THEN Ord(Head(a)) < Ord(Head(b))
  ELSE StrLess(Tail(a), Tail(b))

\* sorted(repoSet.get('ids', []))
RECURSIVE Sorted(_)
Sorted(S) ==
  IF S = {} THEN <<>>
  ELSE LET m == CHOOSE x \in S : \A y \in S : y = x \/ StrLess(x, y)
       IN  <<m>> \o Sorted(S \ {m})

\* docId.replace(':', '-')
Replace(docId) == [i \in DOMAIN docId |-> IF docId[i] = ":" THEN "-" ELSE docId[i]]

\* every task of the runs has this destination root
Roots == {"r1"}
SetNames == {"s1", "s2"}
FileNames == {Replace(id) : id \in Ids}

\* setDest = '{}/{}'.format(dest, setName)
SetDest(dest, setName) == <<dest, setName>>
\* docDest = '{}/{}'.format(setDest, docId.replace(':', '-'))
DocDest(dest, setName, docId) == <<dest, setName, Replace(docId)>>

SetPaths == {SetDest(r, s) : r \in Roots, s \in SetNames}
FilePaths == {<<r, s, f>> : r \in Roots, s \in SetNames, f \in FileNames}

----------------------------------------------------------------------------
(* The filesystem.  A directory path is "absent", "nocreate" (absent, and  *)
(* os.makedirs raises on it), "file" (exists, not a directory) or "dir".   *)
(* A document path is absent, a directory, or a file with its text.        *)

DirStates == {"absent", "nocreate", "file", "dir"}

Absent == [k |-> "absent", text |-> <<>>]
IsDirectory == [k |-> "dir", text |-> <<>>]
File(text) == [k |-> "file", text |-> text]

\* os.path.exists / os.path.isdir on a directory path
Exists(st) == st \in {"file", "dir"}
IsDir(st) == st = "dir"
\* os.makedirs(path, exist_ok=True) returns without raising
MakedirsOk(st) == st # "nocreate"
\* the path after the existence check and the makedirs call
AfterMakedirs(st) == IF st = "absent" THEN "dir" ELSE st

\* the check of dest without its isdir branch
RootGood_NoIsDir(st) == IF ~Exists(st) THEN MakedirsOk(st) ELSE TRUE

\* harvest, lines 102-111: the value of good after the check of dest
RootGood(st) == IF ~Exists(st) THEN MakedirsOk(st) ELSE IsDir(st)

\* harvest, lines 123-132: the value of setGood after the check of setDest
SetDirGood(st) == IF ~Exists(st) THEN MakedirsOk(st) ELSE IsDir(st)

\* Responses the repository sends in the harvest runs: a record, a protocol
\* error, and a text that is neither.
Responses == { <<"MO", "SP", "d", "MC", "GC">>, <<"E1", "d", "EC">>, <<"d">> }

\* What run(COMMAND + (docDest, docUrl)) can do: curl writes a response to
\* docDest; curl ends without writing (run does not raise on a non-zero exit);
\* or run itself raises because curl cannot be started.
Fetches ==
  {[k |-> "wrote", text |-> t] : t \in Responses}
    \cup {[k |-> "failed", text |-> <<>>], [k |-> "spawn", text |-> <<>>]}

\* docDest after run(): curl replaces a file or creates it
AfterRun(f0, fetch) == IF fetch.k = "wrote" THEN File(fetch.text) ELSE f0

\* harvest, lines 148-156: docError after the try block.  open() raises on
\* a missing path and on a directory.
DocError(f1, fetch) ==
  IF fetch.k = "spawn" THEN Raised("run")
  ELSE IF f1.k # "file" THEN Raised("open")
  ELSE Deliver(f1.text).error

\* docDest after the try block: deliver rewrites the file of a record
AfterDeliver(f1, fetch) ==
  IF fetch.k # "spawn" /\ f1.k = "file" THEN File(Deliver(f1.text).text) ELSE f1

\* harvest, line 157: the guard of os.unlink(docDest)
Unlinks(docError, f2) == IsError(docError) /\ f2.k # "absent"

\* os.unlink raises on a directory
UnlinkRaises(f2) == f2.k = "dir"

\* nError counting the errors deliver returns, not the exceptions
NErrorAfter_DeliverOnly(n, docError) ==
  IF docError.kind \in {"ProtocolError", "Malformed"} THEN n + 1 ELSE n

\* harvest, lines 159-161: setGood and nError after one identifier
SetGoodAfter(sg, docError) == IF IsError(docError) THEN FALSE ELSE sg
NErrorAfter(n, docError) == IF IsError(docError) THEN n + 1 ELSE n

\* good assigned from the set just done
TaskGoodAfter_LastSetWins(g, sg) == sg

\* harvest, lines 166-167 and 133-134: good after a set
TaskGoodAfter(g, sg) == IF ~sg THEN FALSE ELSE g

\* good assigned from the task just done
GoodAfter_LastTaskWins(g, thisGood) == thisGood

\* harvestAll, lines 91-93: good after a task
GoodAfter(g, thisGood) == IF ~thisGood THEN FALSE ELSE g

\* harvest, lines 168-170: the counts of the summary line
Reported(n, nErr) == <<n - nErr, nErr>>

----------------------------------------------------------------------------
VARIABLES
  pc,          \* where the run is: harvestAll, harvest, sets, docs, done, raised
  tasksDone,   \* tasks harvestAll has taken from repoTasks
  good,        \* harvestAll: good
  result,      \* what harvestAll returned: "none", "True", "False"
  dest,        \* harvest: dest
  taskGood,    \* harvest: good
  setsDone,    \* sets harvest has taken from the task
  setName,     \* harvest: setName
  ids,         \* harvest: ids, sorted
  docIx,       \* position of docId in ids
  setGood,     \* harvest: setGood
  nError,      \* harvest: nError
  reported,    \* the counts of the last summary line: <<good, missed>>
  roots,       \* state of every destination root
  setdirs,     \* state of every set directory
  files,       \* state of every document path
  allOk,       \* history: no root, set directory or identifier has failed
  fetched,     \* history: identifiers of the set fetched so far
  nFetched,    \* history: fetches made for the set
  okIds,       \* history: identifiers of the set whose docError is None
  failures,    \* history: identifiers of the set whose docError is an error
  last,        \* history: the last identifier's fetch, outcome, and whether
               \*   deliver read and classified its file
  emptyAtStart,\* history: the set directory held nothing when the set began
  badSetSeen,  \* history: a set directory of this task was unusable
  dpc,         \* classifier run: "off", "call", "returned"
  dtext,       \* classifier run: the text of the file before deliver
  dfile,       \* classifier run: the text of the file
  dwritten,    \* classifier run: deliver wrote the file
  derror       \* classifier run: what deliver returned

vars == <<pc, tasksDone, good, result, dest, taskGood, setsDone, setName, ids,
          docIx, setGood, nError, reported, roots, setdirs, files, allOk,
          fetched, nFetched, okIds, failures, last, emptyAtStart, badSetSeen,
          dpc, dtext, dfile, dwritten, derror>>

allVars == <<tasksDone, good, result, roots, setdirs, files, allOk>>
taskVars == <<dest, taskGood, setsDone, badSetSeen>>
setVars == <<setName, ids, docIx, setGood, nError, fetched, nFetched,
             okIds, failures, last, emptyAtStart>>
deliverVars == <<dpc, dtext, dfile, dwritten, derror>>

Range(s) == {s[i] : i \in DOMAIN s}

NoLast == [fetch |-> "none", kind |-> "none", classified |-> FALSE]

\* The filesystems a run starts on.  A root is absent, cannot be created, is
\* a file, or is a directory; in a root that is a directory each set
\* directory is one of the same, and a set directory that is a directory is
\* empty or holds one path: a directory, or a file an earlier run has left.
StaleTexts == { <<"MO", "SP", "d", "MC", "GC">> }
Leftovers == {IsDirectory} \cup {File(t) : t \in StaleTexts}
NoRoots == [r \in Roots |-> "absent"]
NoSetDirs == [p \in SetPaths |-> "absent"]
NoFiles == [p \in FilePaths |-> Absent]
Empty == [f \in FileNames |-> Absent]

SetDirInit ==
  {[st |-> st, holds |-> Empty] : st \in DirStates}
    \cup {[st |-> "dir", holds |-> [Empty EXCEPT ![f] = x]] :
            f \in FileNames, x \in Leftovers}
RootInit ==
  {[st |-> st, sets |-> [n \in SetNames |-> [st |-> "absent", holds |-> Empty]]] :
     st \in {"absent", "nocreate", "file"}}
    \cup {[st |-> "dir", sets |-> m] : m \in [SetNames -> SetDirInit]}
InitFS == [Roots -> RootInit]

\* locals of harvest before a task, and of the set loop outside a set
TaskIdle ==
  /\ dest = "r1" /\ taskGood = TRUE /\ setsDone = 0 /\ badSetSeen = FALSE
SetIdle ==
  /\ setName = "s1" /\ ids = <<>> /\ docIx = 1 /\ setGood = TRUE /\ nError = 0
  /\ fetched = {} /\ nFetched = 0 /\ okIds = {} /\ failures = 0
  /\ last = NoLast /\ emptyAtStart = FALSE
DeliverIdle ==
  /\ dpc = "off" /\ dtext = <<>> /\ dfile = <<>> /\ dwritten = FALSE
  /\ derror = NoError

Init ==
  /\ pc = "harvestAll" /\ tasksDone = 0 /\ good = TRUE /\ result = "none"
  /\ \E fs \in InitFS :
       /\ roots = [r \in Roots |-> fs[r].st]
       /\ setdirs = [p \in SetPaths |-> fs[p[1]].sets[p[2]].st]
       /\ files = [p \in FilePaths |-> fs[p[1]].sets[p[2]].holds[p[3]]]
  /\ allOk = TRUE
  /\ reported = <<0, 0>>
  /\ TaskIdle /\ SetIdle /\ DeliverIdle

----------------------------------------------------------------------------
(* harvestAll and harvest.  repoTasks, the sets of a task and the ids of a *)
(* set are read-only inputs: each is drawn when its loop reaches it.       *)

TaskReset ==
  /\ dest' = "r1" /\ taskGood' = TRUE /\ setsDone' = 0 /\ badSetSeen' = FALSE
\* the locals of the set loop go out of use
SetReset ==
  /\ setName' = "s1" /\ ids' = <<>> /\ docIx' = 1 /\ setGood' = TRUE
  /\ nError' = 0
  /\ fetched' = {} /\ nFetched' = 0 /\ okIds' = {} /\ failures' = 0
  /\ last' = NoLast /\ emptyAtStart' = FALSE

\* harvestAll, lines 90-91: the loop takes the next task and calls harvest
NextTask ==
  /\ pc = "harvestAll"
  /\ tasksDone < MaxTasks
  /\ \E d \in Roots : dest' = d
  /\ tasksDone' = tasksDone + 1
  /\ pc' = "harvest"
  /\ UNCHANGED <<reported, good, result, roots, setdirs, files, allOk>>
  /\ UNCHANGED <<taskGood, setsDone, badSetSeen>>
  /\ UNCHANGED setVars
  /\ UNCHANGED deliverVars

\* harvest, lines 97-113: the destination root is checked and made; a bad
\* root returns False to harvestAll (lines 92-93)
HarvestRoot ==
  /\ pc = "harvest"
  /\ IF RootGood(roots[dest])
       THEN /\ roots' = [roots EXCEPT ![dest] = AfterMakedirs(roots[dest])]
            /\ taskGood' = TRUE
            /\ pc' = "sets"
            /\ UNCHANGED <<good, allOk, dest>>
       ELSE /\ good' = GoodAfter(good, FALSE)
            /\ allOk' = FALSE
            /\ pc' = "harvestAll"
            /\ dest' = "r1"
            /\ UNCHANGED <<roots, taskGood>>
  /\ UNCHANGED <<reported, tasksDone, result, setdirs, files, setsDone, badSetSeen>>
  /\ UNCHANGED setVars
  /\ UNCHANGED deliverVars

\* harvest, lines 115-136: the loop takes the next set, checks and makes its
\* directory; a bad directory marks the task and goes on with the next set
NextSet ==
  /\ pc = "sets"
  /\ setsDone < MaxSets
  /\ setsDone' = setsDone + 1
  /\ \E name \in SetNames, idset \in SUBSET Ids :
       LET p == SetDest(dest, name) IN
       IF SetDirGood(setdirs[p])
         THEN /\ setdirs' = [setdirs EXCEPT ![p] = AfterMakedirs(setdirs[p])]
              /\ setName' = name
              /\ ids' = Sorted(idset)
              /\ docIx' = 1
              /\ setGood' = TRUE
              /\ nError' = 0
              /\ fetched' = {} /\ nFetched' = 0 /\ okIds' = {} /\ failures' = 0
              /\ last' = NoLast
              /\ emptyAtStart' =
                   \A f \in FileNames : files[<<dest, name, f>>] = Absent
              /\ pc' = "docs"
              /\ UNCHANGED <<taskGood, allOk, badSetSeen>>
         ELSE /\ taskGood' = TaskGoodAfter(taskGood, FALSE)
              /\ allOk' = FALSE
              /\ badSetSeen' = TRUE
              /\ pc' = "sets"
              /\ setName' = name
              /\ ids' = Sorted(idset)
              /\ docIx' = 1
              /\ setGood' = FALSE
              /\ nError' = 0
              /\ fetched' = {} /\ nFetched' = 0 /\ okIds' = {} /\ failures' = 0
              /\ last' = NoLast
              /\ emptyAtStart' = FALSE
              /\ UNCHANGED setdirs
  /\ reported' = <<0, 0>>
  /\ UNCHANGED <<tasksDone, good, result, roots, files, dest>>
  /\ UNCHANGED deliverVars

\* harvest, lines 137-165: one identifier is fetched, classified and counted.
\* An exception of os.unlink (line 158) is caught nowhere: it ends the run.
Doc ==
  /\ pc = "docs"
  /\ docIx <= Len(ids)
  /\ \E fetch \in Fetches :
       LET docId == ids[docIx]
           docDest == DocDest(dest, setName, docId)
           f0 == files[docDest]
           f1 == AfterRun(f0, fetch)
           docError == DocError(f1, fetch)
           f2 == AfterDeliver(f1, fetch)
       IN
       /\ fetch.k = "wrote" => f0.k # "dir"
       /\ fetched' = fetched \cup {docId}
       /\ nFetched' = nFetched + 1
       /\ okIds' = IF docError.kind = "None" THEN okIds \cup {docId} ELSE okIds
       /\ failures' = IF docError.kind = "None" THEN failures ELSE failures + 1
       /\ last' = [fetch |-> fetch.k, kind |-> docError.kind,
                   classified |-> (fetch.k # "spawn" /\ f1.k = "file")]
       /\ allOk' = (allOk /\ docError.kind = "None")
       /\ IF Unlinks(docError, f2) /\ UnlinkRaises(f2)
            THEN /\ pc' = "raised"
                 /\ files' = [files EXCEPT ![docDest] = f2]
                 /\ UNCHANGED <<setGood, nError, docIx>>
            ELSE /\ pc' = "docs"
                 /\ files' = [files EXCEPT ![docDest] =
                                IF Unlinks(docError, f2) THEN Absent ELSE f2]
                 /\ setGood' = SetGoodAfter(setGood, docError)
                 /\ nError' = NErrorAfter(nError, docError)
                 /\ docIx' = docIx + 1
  /\ UNCHANGED <<tasksDone, good, result, roots, setdirs>>
  /\ UNCHANGED taskVars
  /\ UNCHANGED <<setName, ids, reported, emptyAtStart>>
  /\ UNCHANGED deliverVars

\* harvest, lines 166-170: the pass over the set has ended
SetEnd ==
  /\ pc = "docs"
  /\ docIx > Len(ids)
  /\ taskGood' = TaskGoodAfter(taskGood, setGood)
  /\ reported' = Reported(Len(ids), nError)
  /\ pc' = "sets"
  /\ SetReset
  /\ UNCHANGED allVars
  /\ UNCHANGED <<dest, setsDone, badSetSeen>>
  /\ UNCHANGED deliverVars

\* harvest, line 171, and harvestAll, lines 91-93: the task has no further
\* set; harvest returns good
HarvestReturn ==
  /\ pc = "sets"
  /\ good' = GoodAfter(good, taskGood)
  /\ pc' = "harvestAll"
  /\ TaskReset
  /\ SetReset
  /\ reported' = <<0, 0>>
  /\ UNCHANGED <<tasksDone, result, roots, setdirs, files, allOk>>
  /\ UNCHANGED deliverVars

\* harvestAll, line 94: repoTasks has no further task
HarvestAllReturn ==
  /\ pc = "harvestAll"
  /\ result' = IF good THEN "True" ELSE "False"
  /\ pc' = "done"
  /\ UNCHANGED <<reported, tasksDone, good, roots, setdirs, files, allOk>>
  /\ UNCHANGED taskVars
  /\ UNCHANGED setVars
  /\ UNCHANGED deliverVars

Next ==
  \/ NextTask
  \/ HarvestRoot
  \/ NextSet
  \/ Doc
  \/ SetEnd
  \/ HarvestReturn
  \/ HarvestAllReturn

Spec == Init /\ [][Next]_vars

----------------------------------------------------------------------------
(* A run of deliver alone, on a readable file holding any text.            *)

InitDeliver ==
  /\ pc = "off" /\ tasksDone = 0 /\ good = TRUE /\ result = "none"
  /\ roots = NoRoots /\ setdirs = NoSetDirs /\ files = NoFiles
  /\ allOk = TRUE
  /\ reported = <<0, 0>>
  /\ TaskIdle /\ SetIdle
  /\ dpc = "call"
  /\ dtext \in Texts
  /\ dfile = dtext
  /\ dwritten = FALSE
  /\ derror = NoError

\* deliver, lines 174-196
DeliverCall ==
  /\ dpc = "call"
  /\ derror' = Deliver(dfile).error
  /\ dfile' = Deliver(dfile).text
  /\ dwritten' = Deliver(dfile).written
  /\ dpc' = "returned"
  /\ UNCHANGED <<dtext, pc, reported>>
  /\ UNCHANGED allVars
  /\ UNCHANGED taskVars
  /\ UNCHANGED setVars

NextDeliver == DeliverCall

SpecDeliver == InitDeliver /\ [][NextDeliver]_vars

----------------------------------------------------------------------------
(* Claims about harvestAll and harvest, under Spec.                        *)

\* the loop over ids has run out: the pass over the set has ended
PassEnded == pc = "docs" /\ docIx > Len(ids)

\* the document paths of the current set that exist
Present == {f \in FileNames : files[<<dest, setName, f>>].k # "absent"}

\* C1: when harvestAll returns, it returns True if and only if no
\* destination root, no set directory and no identifier of the run failed,
\* and False otherwise.
C1_ResultIsConjunction ==
  pc = "done" =>
    /\ result \in {"True", "False"}
    /\ (result = "True") <=> allOk

\* a run of two tasks that returned False although some identifier succeeded
C1_Witness ==
  /\ pc = "done" /\ result = "False" /\ tasksDone >= 2
  /\ \E p \in FilePaths : files[p].k = "file"

\* C2: when the pass over a set ends, nError is the number of identifiers
\* that did not end in Success, the summary line reports N-K good and K
\* missed, which sum to N, and during the pass nError moves only by +1, once
\* for each failed identifier.
C2_FailureCount ==
  /\ [](PassEnded =>
          /\ nError = failures
          /\ Cardinality(okIds) = Len(ids) - nError)
  /\ [][(pc = "docs" /\ pc' = "sets") =>
          /\ reported' = <<Len(ids) - failures, failures>>
          /\ reported'[1] + reported'[2] = Len(ids)]_vars
  /\ [][(pc = "docs" /\ pc' = "docs") =>
          /\ nError' = nError + (IF last'.kind = "None" THEN 0 ELSE 1)
          /\ docIx' = docIx + 1]_vars
  /\ [][(pc # "docs" \/ pc' # "docs") => (nError' = nError \/ nError' = 0)]_vars

\* a summary line that reports good and missed identifiers
C2_Witness == pc = "sets" /\ reported[1] >= 1 /\ reported[2] >= 1

\* C3: after the pass over a set whose directory was empty at the start, the
\* files in the directory are exactly those of the successful identifiers:
\* N-K files, one at the path of each successful identifier, none at the
\* path of a failed one.
C3_FilesAreSuccesses ==
  (PassEnded /\ emptyAtStart) =>
    /\ Cardinality(Present) = Len(ids) - failures
    /\ Present = {Replace(id) : id \in okIds}
    /\ \A id \in Range(ids) \ okIds :
         files[DocDest(dest, setName, id)].k = "absent"

\* C4: no failure of an identifier stops the batch: the run never ends in an
\* exception, every pass reaches the end of ids with each identifier
\* fetched once, and harvestAll returns a boolean.
C4_BatchCompletes ==
  /\ pc # "raised"
  /\ PassEnded => (fetched = Range(ids) /\ nFetched = Len(ids))
  /\ pc = "done" => result \in {"True", "False"}

C6_BadSetDirSkipsSet ==
  /\ [][(pc = "sets" /\ setsDone' = setsDone + 1
           /\ setdirs[SetDest(dest, setName')] \in {"file", "nocreate"}) =>
          /\ pc' = "sets"
          /\ taskGood' = FALSE /\ badSetSeen'
          /\ files' = files /\ setdirs' = setdirs /\ roots' = roots
          /\ nFetched' = 0 /\ fetched' = {}]_vars
  /\ [][(badSetSeen /\ pc = "sets" /\ pc' = "harvestAll") => good' = FALSE]_vars
  /\ [][(badSetSeen /\ pc' \in {"sets", "docs"}) => (badSetSeen' /\ ~taskGood')]_vars
  /\ [][~good => (~good' /\ result' # "True")]_vars
  /\ [](PassEnded /\ badSetSeen =>
          fetched = Range(ids) /\ nFetched = Len(ids))

\* the pass over a later set of two or more identifiers has ended after a
\* set directory of the task was unusable
C6_Witness == PassEnded /\ badSetSeen /\ Len(ids) >= 2

\* C10: an identifier whose fetch wrote no response to docDest has a
\* transport failure as its outcome, and deliver classifies nothing for it.
C10_TransportFailureNotClassified ==
  (pc \in {"docs", "raised"} /\ last.fetch \in {"failed", "spawn"}) =>
    /\ last.kind = "Exception"
    /\ ~last.classified

----------------------------------------------------------------------------
(* Claims about deliver, under SpecDeliver.                                *)

IsErrorTag(tok) == tok \in {"E1", "E2", "EB", "EC"}
IsMetadataTag(tok) == tok \in {"MO", "MC"}

\* the error tags of the text are one or more elements, each an opening tag
\* with a code attribute followed by its closing tag
WellFormedErrors(text) ==
  LET tags == SelectSeq(text, IsErrorTag)
  IN  /\ Len(tags) >= 2
      /\ Len(tags) % 2 = 0
      /\ \A i \in DOMAIN tags :
           IF i % 2 = 1 THEN tags[i] \in {"E1", "E2"} ELSE tags[i] = "EC"

\* the metadata tags of the text are one or more elements, each an opening
\* tag followed by its closing tag, and the envelope closes after the first
WellFormedRecord(text) ==
  LET tags == SelectSeq(text, IsMetadataTag)
  IN  /\ Len(tags) >= 2
      /\ Len(tags) % 2 = 0
      /\ \A i \in DOMAIN tags :
           IF i % 2 = 1 THEN tags[i] = "MO" ELSE tags[i] = "MC"
      /\ \E g \in Pos(text, "GC") : g > Min(Pos(text, "MC"))

\* C7: deliver gives one outcome, in this order: a text with '</GetRecord>'
\* and '</metadata>' gives Success or 'No metadata found', never a protocol
\* error; otherwise a text with '</error>' gives a protocol error or 'Could
\* not parse error message'; otherwise 'No record found and no error message
\* found'.  The file is rewritten only on Success.
C7_ClassificationOrder ==
  dpc = "returned" =>
    LET record == Contains(dtext, "GC") /\ Contains(dtext, "MC")
        err == Contains(dtext, "EC")
    IN  /\ record =>
              derror \in {NoError, Malformed("No metadata found")}
        /\ (~record /\ err) =>
              \/ derror.kind = "ProtocolError"
              \/ derror = Malformed("Could not parse error message")
        /\ (~record /\ ~err) =>
              derror = Malformed("No record found and no error message found")
        /\ (~Contains(dtext, "MC") /\ ~Contains(dtext, "EC")) =>
              derror = Malformed("No record found and no error message found")
        /\ (dwritten \/ dfile # dtext) => derror = NoError

\* a text with the record markers and an error element, classified Success
C7_Witness ==
  /\ dpc = "returned"
  /\ Contains(dtext, "GC") /\ Contains(dtext, "MC") /\ Contains(dtext, "EC")
  /\ \E i \in DOMAIN dtext : CodeOf(dtext[i]) # ""
  /\ derror = NoError /\ dwritten

\* C8: in the error branch, a text with well-formed error elements gives
\* the protocol error of its first error element: that element's code and
\* that element's message.
C8_FirstErrorElement ==
  (/\ dpc = "returned"
   /\ ~(Contains(dtext, "GC") /\ Contains(dtext, "MC"))
   /\ WellFormedErrors(dtext)) =>
    LET open == Min({i \in DOMAIN dtext : CodeOf(dtext[i]) # ""})
        close == Min(Pos(dtext, "EC"))
    IN  derror = ProtocolError(CodeOf(dtext[open]),
                               SubSeq(dtext, open + 1, close - 1))

\* C9: a text with a well-formed record envelope and well-formed metadata
\* gives Success, and the file then holds the trimmed text between the
\* opening tag of the first metadata element and that element's closing tag.
C9_FirstMetadataElement ==
  (dpc = "returned" /\ WellFormedRecord(dtext)) =>
    LET open == Min(Pos(dtext, "MO"))
        close == Min(Pos(dtext, "MC"))
    IN  /\ derror = NoError
        /\ dfile = Strip(SubSeq(dtext, open + 1, close - 1))

====
